---- MODULE Spec2Model ----
(***************************************************************************)
(* Model of the AddonBuilder construct of admiral                          *)
(* (src/src/utils/validation-utils.ts, lines 117-553): validation of the   *)
(* addon set, resolution of the deployment order by depth-first search,    *)
(* the deployment walk over the resolved order, and the query methods.     *)
(*                                                                         *)
(* Strings that the code only tests for truthiness (chart, namespace, the  *)
(* serviceAccount's name and namespace) are modelled by "" for the absent  *)
(* / empty value and a non-empty string otherwise.  An addon's name is     *)
(* also compared with === (indexOf), so an absent name is the value        *)
(* `undefined`, distinct from the empty name "".  Optional objects         *)
(* (helmConfig, serviceAccount) carry a `present` flag.                    *)
(***************************************************************************)
EXTENDS Integers, Sequences, FiniteSets, TLC

VARIABLES
    props,            \* AddonBuilderProps handed to the constructor
    fault,            \* the cluster-handle call that throws, NoFault if none does
    other,            \* an earlier AddonBuilder of the same addons and dependencies
    pc,               \* position of the constructor
    err,              \* the Error thrown by the constructor, NoError if none
    deploymentOrder,  \* constructor local `deploymentOrder`
    idx,              \* position of deploymentOrder.forEach (1-based)
    helmCharts,       \* constructor local `helmCharts`
    serviceAccounts,  \* constructor local `serviceAccounts`
    namespaces,       \* constructor local `namespaces`
    calls,            \* cluster-handle / construct-tree operations issued so far
    output,           \* this.output (assigned is FALSE until line 325 runs)
    lastQuery         \* last query method call and its result

vars == <<props, fault, other, pc, err, deploymentOrder, idx, helmCharts, serviceAccounts,
          namespaces, calls, output, lastQuery>>

-----------------------------------------------------------------------------
(* Generic helpers for JavaScript array operations *)

\* Array.prototype.indexOf, as a 1-based position; 0 when absent
IndexOf(seq, x) ==
    IF \E i \in 1..Len(seq) : seq[i] = x
    THEN CHOOSE i \in 1..Len(seq) : seq[i] = x /\ \A j \in 1..(i - 1) : seq[j] # x
    ELSE 0

\* Array.prototype.includes
Includes(seq, x) == \E i \in 1..Len(seq) : seq[i] = x

Range(seq) == {seq[i] : i \in 1..Len(seq)}

\* all sequences over S of length at most n
SeqsUpTo(S, n) == UNION {[1..k -> S] : k \in 0..n}

-----------------------------------------------------------------------------
(* Data model: AddonConfig, HelmChartConfig, ServiceAccountConfig,
   AddonDependency *)

\* the value of a name property that is not set; no addon is called this
undefined == "<undefined>"

\* !name: the name is undefined or the empty string
falsy(name) == name \in {"", undefined}

NoHelmConfig == [present |-> FALSE, chart |-> ""]
HelmConfig(chart) == [present |-> TRUE, chart |-> chart]

NoServiceAccount == [present |-> FALSE, name |-> "", namespace |-> ""]
ServiceAccount(name, namespace) ==
    [present |-> TRUE, name |-> name, namespace |-> namespace]

DeploymentMethods == {"cdk-helm", "helm-cli", "kustomize", "kubectl"}

AddonConfig(name, enabled, method, helmConfig, namespace, createNamespace, dependsOn, serviceAccount) ==
    [name |-> name, enabled |-> enabled, deploymentMethod |-> method,
     helmConfig |-> helmConfig, namespace |-> namespace,
     createNamespace |-> createNamespace, dependsOn |-> dependsOn,
     serviceAccount |-> serviceAccount]

AddonDependency(addon, dependsOn) == [addon |-> addon, dependsOn |-> dependsOn]

AddonBuilderProps(addons, dependencies) ==
    [environment |-> "test", addons |-> addons, dependencies |-> dependencies]

-----------------------------------------------------------------------------
(* Errors thrown by the constructor.  `kind` identifies the message
   template, `addon` / `index` / `ref` / `names` the values interpolated
   into it. *)

NoError == [kind |-> "none", addon |-> "", index |-> -1, ref |-> "", names |-> <<>>]

\* duplicates.join(', ') writes an undefined element as the empty string
join(names) == [i \in 1..Len(names) |-> IF names[i] = undefined THEN "" ELSE names[i]]
\* `Duplicate addon names found: ${duplicates.join(', ')}`
DuplicateError(names) == [NoError EXCEPT !.kind = "duplicate", !.names = join(names)]
\* `Addon at index ${index} must have a name` (index is 0-based as in JS)
MissingNameError(index) == [NoError EXCEPT !.kind = "missing-name", !.index = index]
\* `Addon '${addon.name}' using cdk-helm method must have helmConfig`
MissingHelmConfigError(name) == [NoError EXCEPT !.kind = "missing-helmconfig", !.addon = name]
\* `Addon '${addon.name}' helmConfig must specify a chart name`
MissingChartError(name) == [NoError EXCEPT !.kind = "missing-chart", !.addon = name]
\* `Addon '${addon.name}' serviceAccount must have name and namespace`
ServiceAccountError(name) == [NoError EXCEPT !.kind = "bad-serviceaccount", !.addon = name]
\* `Dependency references non-existent addon: ${dep.addon}`
UnknownOwnerError(owner) == [NoError EXCEPT !.kind = "unknown-owner", !.ref = owner]
\* `Dependency '${dep.addon}' references non-existent addon: ${depName}`
UnknownDependencyError(owner, depName) ==
    [NoError EXCEPT !.kind = "unknown-dependency", !.addon = owner, !.ref = depName]
\* `Circular dependency detected involving addon: ${addonName}`
CycleError(name) == [NoError EXCEPT !.kind = "cycle", !.addon = name]
\* TypeError: Cannot read properties of undefined (reading '<property>'),
\* raised by reading this.output.<property> before this.output is assigned
TypeError(property, name) ==
    [NoError EXCEPT !.kind = "type-error", !.addon = name, !.ref = property]

\* the exception a cluster-handle call raised, passed on as it is
ClusterError(op, name) == [NoError EXCEPT !.kind = "cluster", !.addon = name, !.ref = op]

StructuralKinds ==
    {"missing-name", "missing-helmconfig", "missing-chart", "bad-serviceaccount"}
ReferenceKinds == {"unknown-owner", "unknown-dependency"}
ValidationKinds == {"duplicate"} \cup StructuralKinds \cup ReferenceKinds

-----------------------------------------------------------------------------
(* validateProps *)

\* props.addons.map(addon => addon.name)
addonNamesOf(addons) == [i \in 1..Len(addons) |-> addons[i].name]

RECURSIVE FilterByIndex(_, _, _)
\* the elements of seq at the positions in I, in order, from position i on
FilterByIndex(seq, I, i) ==
    IF i > Len(seq) THEN <<>>
    ELSE (IF i \in I THEN <<seq[i]>> ELSE <<>>) \o FilterByIndex(seq, I, i + 1)

\* faulty variant: report only the first repeated name
duplicatesFirstOnly(addonNames) ==
    LET I == {i \in 1..Len(addonNames) : IndexOf(addonNames, addonNames[i]) # i}
    IN  IF I = {} THEN <<>>
        ELSE <<addonNames[CHOOSE i \in I : \A j \in I : i <= j]>>

\* addonNames.filter((name, index) => addonNames.indexOf(name) !== index)
duplicates(addonNames) ==
    FilterByIndex(addonNames,
                  {i \in 1..Len(addonNames) : IndexOf(addonNames, addonNames[i]) # i},
                  1)

\* faulty variant: disabled addons are not checked
validateAddonEnabledOnly(addon, index) ==
    IF ~addon.enabled
    THEN NoError
    ELSE IF falsy(addon.name)
    THEN MissingNameError(index)
    ELSE IF addon.deploymentMethod = "cdk-helm" /\ ~addon.helmConfig.present
    THEN MissingHelmConfigError(addon.name)
    ELSE IF addon.helmConfig.present /\ addon.helmConfig.chart = ""
    THEN MissingChartError(addon.name)
    ELSE IF addon.serviceAccount.present
            /\ (addon.serviceAccount.name = "" \/ addon.serviceAccount.namespace = "")
    THEN ServiceAccountError(addon.name)
    ELSE NoError

\* the body of props.addons.forEach((addon, index) => ...) in validateProps:
\* the first check that throws for this addon, NoError if none does
validateAddon(addon, index) ==
    IF falsy(addon.name)
    THEN MissingNameError(index)
    ELSE IF addon.deploymentMethod = "cdk-helm" /\ ~addon.helmConfig.present
    THEN MissingHelmConfigError(addon.name)
    ELSE IF addon.helmConfig.present /\ addon.helmConfig.chart = ""
    THEN MissingChartError(addon.name)
    ELSE IF addon.serviceAccount.present
            /\ (addon.serviceAccount.name = "" \/ addon.serviceAccount.namespace = "")
    THEN ServiceAccountError(addon.name)
    ELSE NoError

\* props.addons.some(addon => addon.name === name)
addonExists(addons, name) == \E i \in 1..Len(addons) : addons[i].name = name

\* faulty variant: the names of the dependsOn list are not checked
validateDependencyOwnerOnly(addons, dep) ==
    IF ~addonExists(addons, dep.addon) THEN UnknownOwnerError(dep.addon) ELSE NoError

\* the body of props.dependencies.forEach((dep) => ...) in validateProps
validateDependency(addons, dep) ==
    IF ~addonExists(addons, dep.addon)
    THEN UnknownOwnerError(dep.addon)
    ELSE LET bad == {j \in 1..Len(dep.dependsOn) : ~addonExists(addons, dep.dependsOn[j])}
         IN  IF bad = {} THEN NoError
             ELSE UnknownDependencyError(
                      dep.addon, dep.dependsOn[CHOOSE j \in bad : \A k \in bad : j <= k])

\* faulty variant: the structural error is that of the last addon in violation
validatePropsLastAddon(p) ==
    LET addons == p.addons
        deps == p.dependencies
        dups == duplicates(addonNamesOf(addons))
        badAddons == {i \in 1..Len(addons) : validateAddon(addons[i], i - 1) # NoError}
        badDeps == {i \in 1..Len(deps) : validateDependency(addons, deps[i]) # NoError}
    IN  IF Len(dups) > 0 THEN DuplicateError(dups)
        ELSE IF badAddons # {}
        THEN LET last == CHOOSE i \in badAddons : \A j \in badAddons : i >= j
             IN  validateAddon(addons[last], last - 1)
        ELSE IF badDeps # {}
        THEN LET first == CHOOSE i \in badDeps : \A j \in badDeps : i <= j
             IN  validateDependency(addons, deps[first])
        ELSE NoError

\* the error validateProps throws for p, NoError when it returns normally
validateProps(p) ==
    LET addons == p.addons
        deps == p.dependencies
        dups == duplicates(addonNamesOf(addons))
        badAddons == {i \in 1..Len(addons) : validateAddon(addons[i], i - 1) # NoError}
        badDeps == {i \in 1..Len(deps) : validateDependency(addons, deps[i]) # NoError}
    IN  IF Len(dups) > 0 THEN DuplicateError(dups)
        ELSE IF badAddons # {}
        THEN LET first == CHOOSE i \in badAddons : \A j \in badAddons : i <= j
             IN  validateAddon(addons[first], first - 1)
        ELSE IF badDeps # {}
        THEN LET first == CHOOSE i \in badDeps : \A j \in badDeps : i <= j
             IN  validateDependency(addons, deps[first])
        ELSE NoError

-----------------------------------------------------------------------------
(* resolveDeploymentOrder *)

\* dependencyMap.get(name) || []   (a Map is a function on its key set)
MapGet(map, name) == IF name \in DOMAIN map THEN map[name] ELSE <<>>

\* dependencyMap.set(name, value)
MapSet(map, name, value) ==
    [k \in DOMAIN map \cup {name} |-> IF k = name THEN value ELSE map[k]]

\* dependencyMap.set(dep.addon, dep.dependsOn): line 384
setExternal(map, dep) == MapSet(map, dep.addon, dep.dependsOn)

\* lines 389-392: inline dependsOn appended to the existing entry
addInline(map, addon) ==
    IF Len(addon.dependsOn) > 0
    THEN MapSet(map, addon.name, MapGet(map, addon.name) \o addon.dependsOn)
    ELSE map

RECURSIVE externalMap(_, _)
\* the map after dependencies.forEach over the first n entries
externalMap(dependencies, n) ==
    IF n = 0 THEN <<>>
    ELSE setExternal(externalMap(dependencies, n - 1), dependencies[n])

RECURSIVE inlineMap(_, _, _)
\* the map after addons.forEach over the first n addons, starting from base
inlineMap(base, addons, n) ==
    IF n = 0 THEN base
    ELSE addInline(inlineMap(base, addons, n - 1), addons[n])

\* lines 380-393
buildDependencyMap(addons, dependencies) ==
    inlineMap(externalMap(dependencies, Len(dependencies)), addons, Len(addons))

\* faulty variant: the visited set outlives the call and is shared by the
\* instances
SortInitShared ==
    [visited |-> Range(other.deploymentOrder), visiting |-> {}, result |-> <<>>,
     thrown |-> FALSE, at |-> "", roots |-> <<>>, finished |-> <<>>]

\* state of the topological sort: the closure variables visited, visiting and
\* result, plus the pending exception (thrown, at) and the bookkeeping
\* counters roots (top-level visit calls) and finished (result.push calls)
SortInit ==
    [visited |-> {}, visiting |-> {}, result |-> <<>>, thrown |-> FALSE, at |-> "",
     roots |-> <<>>, finished |-> <<>>]

\* faulty variant: a name already done is not recognised and is visited again
enterNoVisitedCheck(st, addonName) ==
    IF addonName \in st.visiting THEN "throw" ELSE "descend"

\* lines 401-407: what visit does on entry
enter(st, addonName) ==
    IF addonName \in st.visiting THEN "throw"
    ELSE IF addonName \in st.visited THEN "return"
    ELSE "descend"

\* faulty variant: the finished name stays marked as in progress
finishKeepsVisiting(st, addonName) ==
    [st EXCEPT !.visited = @ \cup {addonName},
               !.result = Append(@, addonName),
               !.finished = Append(@, addonName)]

\* faulty variant: the finished name is put at the front of the result
finishAtFront(st, addonName) ==
    [st EXCEPT !.visiting = @ \ {addonName},
               !.visited = @ \cup {addonName},
               !.result = <<addonName>> \o @,
               !.finished = Append(@, addonName)]

\* lines 418-420
finish(st, addonName) ==
    [st EXCEPT !.visiting = @ \ {addonName},
               !.visited = @ \cup {addonName},
               !.result = Append(@, addonName),
               !.finished = Append(@, addonName)]

\* faulty variant: a dependency outside the addon set is visited as well
isInAddonSetAlways(addonNames, dep) == TRUE

\* if (addonNames.includes(dep)): line 413
isInAddonSet(addonNames, dep) == Includes(addonNames, dep)

RECURSIVE visit(_, _, _, _), visitDeps(_, _, _, _, _)
\* const visit = (addonName) => {...}: lines 400-421
visit(st, addonName, addonNames, dependencyMap) ==
    IF st.thrown THEN st
    ELSE CASE enter(st, addonName) = "throw" ->
                [st EXCEPT !.thrown = TRUE, !.at = addonName]
           [] enter(st, addonName) = "return" -> st
           [] OTHER ->
                LET s1 == [st EXCEPT !.visiting = @ \cup {addonName}]
                    s2 == visitDeps(s1, MapGet(dependencyMap, addonName), 1,
                                    addonNames, dependencyMap)
                IN  IF s2.thrown THEN s2 ELSE finish(s2, addonName)

\* deps.forEach((dep) => { if (addonNames.includes(dep)) visit(dep) }), from
\* position i on: lines 412-416
visitDeps(st, deps, i, addonNames, dependencyMap) ==
    IF st.thrown \/ i > Len(deps) THEN st
    ELSE visitDeps(IF isInAddonSet(addonNames, deps[i])
                   THEN visit(st, deps[i], addonNames, dependencyMap)
                   ELSE st,
                   deps, i + 1, addonNames, dependencyMap)

RECURSIVE visitRootsBackwards(_, _, _, _)
\* faulty variant: the top-level loop runs from the last addon to the first
visitRootsBackwards(st, i, addonNames, dependencyMap) ==
    IF st.thrown \/ i > Len(addonNames) THEN st
    ELSE LET addonName == addonNames[Len(addonNames) + 1 - i]
         IN  visitRootsBackwards(
                 IF addonName \notin st.visited
                 THEN visit([st EXCEPT !.roots = Append(@, addonName)],
                            addonName, addonNames, dependencyMap)
                 ELSE st,
                 i + 1, addonNames, dependencyMap)

RECURSIVE visitRoots(_, _, _, _)
\* addonNames.forEach((addonName) => { if (!visited.has(..)) visit(..) }),
\* from position i on: lines 423-427
visitRoots(st, i, addonNames, dependencyMap) ==
    IF st.thrown \/ i > Len(addonNames) THEN st
    ELSE visitRoots(IF addonNames[i] \notin st.visited
                    THEN visit([st EXCEPT !.roots = Append(@, addonNames[i])],
                               addonNames[i], addonNames, dependencyMap)
                    ELSE st,
                    i + 1, addonNames, dependencyMap)

\* faulty variant: the error names the top-level addon whose visit failed
resolveDeploymentOrderBlameRoot(addons, dependencies) ==
    LET r == visitRoots(SortInit, 1, addonNamesOf(addons),
                        buildDependencyMap(addons, dependencies))
    IN  IF r.thrown THEN [r EXCEPT !.at = r.roots[Len(r.roots)]] ELSE r

\* lines 378-430; the final sort state: result is the returned array when
\* thrown is FALSE, and `at` the name in the cycle error when it is TRUE
resolveDeploymentOrder(addons, dependencies) ==
    visitRoots(SortInit, 1, addonNamesOf(addons),
               buildDependencyMap(addons, dependencies))

-----------------------------------------------------------------------------
(* Side effects of the deployment walk *)

\* props.addons.find(addon => addon.name === addonName): line 295
findAddon(addons, addonName) == addons[IndexOf(addonNamesOf(addons), addonName)]

\* stands for `undefined` where find returns no addon; never deployed
UndefinedAddon ==
    AddonConfig("", FALSE, "kubectl", NoHelmConfig, "", FALSE, <<>>, NoServiceAccount)

\* faulty variant: only a name without configuration is skipped
skipsAddonMissingOnly(addons, addonName) == ~addonExists(addons, addonName)

\* if (!addonConfig || !addonConfig.enabled) return: line 296
skipsAddon(addons, addonName) ==
    ~addonExists(addons, addonName) \/ ~findAddon(addons, addonName).enabled

\* faulty variant: a namespace is created for cdk-helm addons only
needsNamespaceCdkHelmOnly(addonConfig) ==
    /\ addonConfig.deploymentMethod = "cdk-helm"
    /\ addonConfig.createNamespace /\ addonConfig.namespace # ""

\* addonConfig.createNamespace && addonConfig.namespace: line 301
needsNamespace(addonConfig) == addonConfig.createNamespace /\ addonConfig.namespace # ""

\* faulty variant: a role is created only next to a namespace of the addon
needsRoleWithNamespaceOnly(addonConfig) ==
    addonConfig.serviceAccount.present /\ needsNamespace(addonConfig)

\* addonConfig.serviceAccount: line 307
needsRole(addonConfig) == addonConfig.serviceAccount.present

\* faulty variant: the deployment method is not looked at
deploysWithCdkHelmAnyMethod(addonConfig) == addonConfig.helmConfig.present

\* addonConfig.deploymentMethod === 'cdk-helm' && addonConfig.helmConfig: line 317
deploysWithCdkHelm(addonConfig) ==
    addonConfig.deploymentMethod = "cdk-helm" /\ addonConfig.helmConfig.present

\* String.prototype.toLowerCase on the strings of the model: the two that
\* hold upper-case letters, and the identity on the others, which hold none
toLowerCase(str) ==
    CASE str = "SA1" -> "sa1"
      [] str = "Test" -> "test"
      [] OTHER -> str

\* generateResourceName(prefix, environment, resourceType): the parts that
\* are joined with "-", lower-cased (src/README.md lines 55-66); the
\* template `sa-${name}` is the pair <<"sa", name>>
generateResourceName(prefix, environment, resourceType) ==
    <<toLowerCase(prefix), toLowerCase(environment),
      [i \in DOMAIN resourceType |-> toLowerCase(resourceType[i])]>>

\* createNamespace, lines 432-446: the manifest handle returned by
\* cluster.addManifest(`${addonConfig.name}-namespace`, {...})
createNamespace(addonConfig) ==
    [id |-> <<addonConfig.name, "namespace">>,
     kind |-> "Namespace",
     name |-> addonConfig.namespace,
     addonLabel |-> addonConfig.name]

\* faulty variant: the role is named after the addon
createServiceAccountRoleByAddon(addonConfig, environment) ==
    [present |-> TRUE,
     id |-> <<"ServiceAccountRole", addonConfig.name>>,
     roleName |-> generateResourceName("admiral", environment,
                                       <<"sa", addonConfig.name>>),
     subject |-> <<"system:serviceaccount", addonConfig.serviceAccount.namespace,
                   addonConfig.serviceAccount.name>>]

\* createServiceAccountRole, lines 448-481: the iam.Role constructed
createServiceAccountRole(addonConfig, environment) ==
    [present |-> TRUE,
     id |-> <<"ServiceAccountRole", addonConfig.name>>,
     roleName |-> generateResourceName("admiral", environment,
                                       <<"sa", addonConfig.serviceAccount.name>>),
     subject |-> <<"system:serviceaccount", addonConfig.serviceAccount.namespace,
                   addonConfig.serviceAccount.name>>]

\* undefined, as a role
NoRole == [present |-> FALSE, id |-> <<>>, roleName |-> <<>>, subject |-> <<>>]

\* the property names every plain object ({}, line 291) inherits from
\* Object.prototype
ObjectPrototypeKeys ==
    {"constructor", "__proto__", "hasOwnProperty", "isPrototypeOf",
     "propertyIsEnumerable", "toLocaleString", "toString", "valueOf",
     "__defineGetter__", "__defineSetter__", "__lookupGetter__",
     "__lookupSetter__"}

\* the member of Object.prototype found under `key`: a value that is not
\* undefined and is no role of this stack
inherited(key) ==
    [present |-> TRUE, id |-> <<"Object.prototype", key>>, roleName |-> <<>>,
     subject |-> <<>>]

\* serviceAccounts[addonName] on the plain object: the role stored under the
\* key, else the member inherited from Object.prototype, else undefined
roleOf(roles, addonName) ==
    IF addonName \in DOMAIN roles THEN roles[addonName]
    ELSE IF addonName \in ObjectPrototypeKeys THEN inherited(addonName)
    ELSE NoRole

\* value?.roleArn, line 502: the ARN of a role (the role's record stands for
\* it), undefined for undefined and for a member of Object.prototype, which
\* has no roleArn property
roleArn(value) ==
    IF value \in {inherited(key) : key \in ObjectPrototypeKeys} THEN NoRole
    ELSE value

\* the record this.output holds before line 325 assigns it
Unassigned ==
    [assigned |-> FALSE, helmCharts |-> <<>>, serviceAccounts |-> <<>>,
     namespaces |-> <<>>, deploymentOrder |-> <<>>]

\* `values` when no serviceAccount is configured: the addon's own values
PlainValues == [serviceAccount |-> FALSE, create |-> TRUE, name |-> "", roleArn |-> NoRole]

\* ns.node.id.includes(`${addonConfig.name}-namespace`): line 521.  Addon
\* names of the model are atoms none of which is a suffix of another, so the
\* substring test succeeds exactly on the manifest of that addon.
nodeIdIncludes(ns, addonName) == ns.id = <<addonName, "namespace">>

\* deployHelmChart, lines 483-529, run while this.output holds `out`.
\* thrown/error: the exception raised; installed: whether cluster.addHelmChart
\* was called before it; chart: the handle returned.
deployHelmChart(addonConfig, environment, out) ==
    LET sa == addonConfig.serviceAccount
        name == addonConfig.name
        wantsNs == addonConfig.createNamespace /\ addonConfig.namespace # ""
        values ==
            IF sa.present
            THEN [serviceAccount |-> TRUE, create |-> FALSE, name |-> sa.name,
                  roleArn |-> roleArn(roleOf(out.serviceAccounts, name))]
            ELSE PlainValues
        found == {i \in 1..Len(out.namespaces) : nodeIdIncludes(out.namespaces[i], name)}
        chart ==
            [id |-> <<name, "chart">>,
             chart |-> addonConfig.helmConfig.chart,
             namespace |-> addonConfig.namespace,
             values |-> values,
             dependencies |->
                 IF wantsNs /\ found # {}
                 THEN {out.namespaces[CHOOSE i \in found : \A j \in found : i <= j].id}
                 ELSE {}]
    IN  IF sa.present /\ ~out.assigned
        THEN [thrown |-> TRUE, error |-> TypeError("serviceAccounts", name),
              installed |-> FALSE, chart |-> chart]
        ELSE IF wantsNs /\ ~out.assigned
        THEN [thrown |-> TRUE, error |-> TypeError("namespaces", name),
              installed |-> TRUE, chart |-> chart]
        ELSE [thrown |-> FALSE, error |-> NoError, installed |-> TRUE, chart |-> chart]

\* one entry of the log of operations on the cluster handle / construct tree
Call(op, addonName) == [op |-> op, addon |-> addonName]

\* no call of the cluster handle throws
NoFault == Call("none", "")

\* faulty variant: an exception of the callback does not end the walk
walkAfterSwallowed(thrown) == "deploy"

\* an exception thrown inside the forEach callback leaves forEach and the
\* constructor (lines 294-323 hold no try/catch)
walkAfter(thrown) == IF thrown THEN "failed" ELSE "deploy"

-----------------------------------------------------------------------------
(* Inputs: the props the constructor is called with *)

\* longest dependsOn list of the dependency-graph inputs
MaxDependsOn == 1

\* addon names of the inputs, in declaration order
Names == <<"a", "b", "c">>
NameSet == Range(Names)
\* a name that is never the name of an addon
Absent == "x"

\* a well-formed cdk-helm addon without namespace or service account
BasicAddon(name, enabled, dependsOn) ==
    AddonConfig(name, enabled, "cdk-helm", HelmConfig("chart"), "", FALSE, dependsOn,
                NoServiceAccount)

PlainAddon(name, dependsOn) == BasicAddon(name, TRUE, dependsOn)

\* all sequences of n elements of S
Tuples(S, n) == [1..n -> S]

\* dependency-graph inputs with inline dependsOn only, over the first n
\* names (a later name is then outside the addon set); the second addon is
\* disabled or none is
InlineInputs ==
    UNION {{AddonBuilderProps(
                [i \in 1..n |-> BasicAddon(Names[i], Names[i] # off, d[i])], <<>>) :
              off \in {Names[2], Absent},
              d \in Tuples(SeqsUpTo(NameSet, MaxDependsOn), n)} :
           n \in 1..Len(Names)}

ExternalEntries(owners, targets) ==
    {AddonDependency(o, l) : o \in owners, l \in SeqsUpTo(targets, MaxDependsOn)}

\* dependency-graph inputs with up to two external entries only
ExternalInputs ==
    {AddonBuilderProps([i \in 1..n |-> PlainAddon(Names[i], <<>>)], deps) :
        n \in 2..Len(Names),
        deps \in SeqsUpTo(ExternalEntries(NameSet, NameSet), 2)}

\* dependency-graph inputs mixing one external entry with inline lists of
\* at most one name
MixedInputs ==
    {AddonBuilderProps([i \in 1..Len(Names) |-> PlainAddon(Names[i], d[i])], <<e>>) :
        d \in Tuples(SeqsUpTo(NameSet, 1), Len(Names)),
        e \in ExternalEntries(NameSet \cup {Absent}, NameSet \cup {Absent})}

\* inputs with repeated and missing names
NamingInputs ==
    {AddonBuilderProps([i \in 1..Len(ns) |-> PlainAddon(ns[i], <<>>)], deps) :
        ns \in SeqsUpTo({"", undefined, "a", "b"}, 4) \ {<<>>},
        deps \in {<<>>, <<AddonDependency("a", <<"b">>)>>}}

\* every combination of the fields the structural checks and the deployment
\* walk read, for one addon
Configs(name, dependsOn) ==
    {AddonConfig(name, en, m, h, ns, cn, dependsOn, sa) :
        en \in BOOLEAN,
        m \in {"cdk-helm", "kubectl"},
        h \in {NoHelmConfig, HelmConfig(""), HelmConfig("chart")},
        ns \in {"", "ns1"},
        cn \in BOOLEAN,
        sa \in {NoServiceAccount, ServiceAccount("", "ns1"), ServiceAccount("sa1", ""),
                ServiceAccount("sa1", "ns1")}}

\* well-formed configurations: the fields the deployment walk reads
DeployConfigs(name, dependsOn) ==
    {AddonConfig(name, en, "cdk-helm", HelmConfig("chart"), ns, ns # "", dependsOn, sa) :
        en \in BOOLEAN,
        ns \in {"", "ns1"},
        sa \in {NoServiceAccount, ServiceAccount("sa1", "ns1")}}
    \cup {AddonConfig(name, TRUE, "kubectl", NoHelmConfig, "ns1", TRUE, dependsOn,
                      ServiceAccount("sa1", "ns1"))}

\* inputs of one or two addons: one addon with an arbitrary configuration,
\* next to a well-formed one that precedes or follows it and that it may
\* depend on or be a dependency of
ConfigInputs ==
    {AddonBuilderProps(<<c>>, <<>>) : c \in Configs("a", <<>>)}
    \cup {AddonBuilderProps(<<c1, c2>>, <<>>) :
            c1 \in Configs("a", <<>>) \cup Configs("a", <<"b">>),
            c2 \in DeployConfigs("b", <<>>)}
    \cup {AddonBuilderProps(<<c1, c2>>, <<>>) :
            c1 \in DeployConfigs("a", <<>>) \cup DeployConfigs("a", <<"b">>),
            c2 \in Configs("b", <<>>)}
    \cup {AddonBuilderProps(<<c1, PlainAddon("", <<>>)>>, <<>>) : c1 \in Configs("a", <<>>)}

\* an enabled addon of a deployment method other than cdk-helm, with or
\* without helmConfig, namespace and service account, next to a cdk-helm addon
MethodInputs ==
    {AddonBuilderProps(<<AddonConfig("a", TRUE, m, h, ns, cn, <<>>, sa),
                         PlainAddon("b", <<>>)>>, <<>>) :
        m \in DeploymentMethods \ {"cdk-helm"},
        h \in {NoHelmConfig, HelmConfig("chart")},
        ns \in {"", "ns1"},
        cn \in BOOLEAN,
        sa \in {NoServiceAccount, ServiceAccount("sa1", "ns1")}}

\* an enabled addon that asks for a namespace and a role without installing
\* a chart
ManifestAddon(name, dependsOn) ==
    AddonConfig(name, TRUE, "kubectl", NoHelmConfig, "ns1", TRUE, dependsOn,
                ServiceAccount("sa1", "ns1"))

\* the inputs that are deployed with a call of the cluster handle throwing
FaultInputs ==
    {AddonBuilderProps(<<a, b, c>>, <<>>) :
        a \in {PlainAddon("a", <<>>), PlainAddon("a", <<"c">>), ManifestAddon("a", <<"b">>)},
        b \in {PlainAddon("b", <<>>), ManifestAddon("b", <<>>)},
        c \in {PlainAddon("c", <<>>), ManifestAddon("c", <<>>), ManifestAddon("c", <<"b">>)}}

\* the calls that may throw
Faults ==
    {Call(op, n) : op \in {"addManifest", "createRole", "addHelmChart"}, n \in NameSet}

\* an enabled addon with a service account that installs no chart
RoleAddon(name, saName, saNamespace) ==
    AddonConfig(name, TRUE, "kubectl", NoHelmConfig, "", FALSE, <<>>,
                ServiceAccount(saName, saNamespace))

\* two addons with service accounts of equal or different names and
\* namespaces, in an environment written in lower case or not
RoleInputs ==
    {[AddonBuilderProps(<<RoleAddon("a", n1, ns1), RoleAddon("b", n2, ns2)>>, <<>>)
        EXCEPT !.environment = env] :
        n1 \in {"sa1", "SA1"}, n2 \in {"sa1", "SA1", "sa2"},
        ns1 \in {"ns1", "ns2"}, ns2 \in {"ns1", "ns2"},
        env \in {"test", "Test"}}

Inputs == InlineInputs \cup ExternalInputs \cup MixedInputs \cup NamingInputs
          \cup ConfigInputs \cup MethodInputs \cup RoleInputs

-----------------------------------------------------------------------------
(* The constructor, lines 280-331, and the query methods *)

NoQuery == [method |-> "none", arg |-> "", found |-> FALSE, role |-> NoRole]

\* no AddonBuilder was constructed before this one
NoInstance ==
    [pc |-> "none", err |-> NoError, deploymentOrder |-> <<>>, calls |-> <<>>,
     environment |-> "", fault |-> NoFault]

Init ==
    /\ \/ props \in Inputs /\ fault = NoFault
       \/ props \in FaultInputs /\ fault \in Faults
    /\ other = NoInstance
    /\ pc = "validateProps"
    /\ err = NoError
    /\ deploymentOrder = <<>>
    /\ idx = 1
    /\ helmCharts = <<>>
    /\ serviceAccounts = <<>>
    /\ namespaces = <<>>
    /\ calls = <<>>
    /\ output = Unassigned
    /\ lastQuery = NoQuery

\* faulty variant: the validation error is recorded but not thrown
ValidatePropsNoThrow ==
    /\ pc = "validateProps"
    /\ err' = validateProps(props)
    /\ pc' = "resolveDeploymentOrder"
    /\ UNCHANGED <<props, fault, other, deploymentOrder, idx, helmCharts, serviceAccounts,
                   namespaces, calls, output, lastQuery>>

\* this.validateProps(props): line 284
ValidateProps ==
    /\ pc = "validateProps"
    /\ err' = validateProps(props)
    /\ pc' = IF err' = NoError THEN "resolveDeploymentOrder" ELSE "failed"
    /\ UNCHANGED <<props, fault, other, deploymentOrder, idx, helmCharts, serviceAccounts,
                   namespaces, calls, output, lastQuery>>

\* const deploymentOrder = this.resolveDeploymentOrder(...): line 287
ResolveDeploymentOrder ==
    /\ pc = "resolveDeploymentOrder"
    /\ LET r == resolveDeploymentOrder(props.addons, props.dependencies)
       IN  IF r.thrown
           THEN /\ pc' = "failed"
                /\ err' = CycleError(r.at)
                /\ UNCHANGED deploymentOrder
           ELSE /\ pc' = "deploy"
                /\ deploymentOrder' = r.result
                /\ UNCHANGED err
    /\ UNCHANGED <<props, fault, other, idx, helmCharts, serviceAccounts, namespaces, calls,
                   output, lastQuery>>

\* one iteration of deploymentOrder.forEach((addonName) => {...}): lines 294-323
DeployAddon ==
    /\ pc = "deploy"
    /\ idx <= Len(deploymentOrder)
    /\ LET addonName == deploymentOrder[idx]
           skipped == skipsAddon(props.addons, addonName)
           addonConfig == IF addonExists(props.addons, addonName)
                          THEN findAddon(props.addons, addonName)
                          ELSE UndefinedAddon
           wantsNs == needsNamespace(addonConfig)
           nsThrows == wantsNs /\ fault = Call("addManifest", addonName)
           wantsRole == ~nsThrows /\ needsRole(addonConfig)
           roleThrows == wantsRole /\ fault = Call("createRole", addonName)
           wantsChart == ~nsThrows /\ ~roleThrows /\ deploysWithCdkHelm(addonConfig)
           h == deployHelmChart(addonConfig, props.environment, output)
           chartThrows == wantsChart /\ h.installed
                          /\ fault = Call("addHelmChart", addonName)
           thrown == nsThrows \/ roleThrows \/ chartThrows \/ (wantsChart /\ h.thrown)
           error == IF nsThrows THEN ClusterError("addManifest", addonName)
                    ELSE IF roleThrows THEN ClusterError("createRole", addonName)
                    ELSE IF chartThrows THEN ClusterError("addHelmChart", addonName)
                    ELSE h.error
       IN  IF skipped
           THEN /\ idx' = idx + 1
                /\ UNCHANGED <<pc, err, helmCharts, serviceAccounts, namespaces, calls>>
           ELSE /\ namespaces' = IF wantsNs /\ ~nsThrows
                                 THEN Append(namespaces, createNamespace(addonConfig))
                                 ELSE namespaces
                /\ serviceAccounts' =
                       IF wantsRole /\ ~roleThrows
                       THEN MapSet(serviceAccounts, addonName,
                                   createServiceAccountRole(addonConfig, props.environment))
                       ELSE serviceAccounts
                /\ calls' = calls
                            \o (IF wantsNs THEN <<Call("addManifest", addonName)>> ELSE <<>>)
                            \o (IF wantsRole THEN <<Call("createRole", addonName)>> ELSE <<>>)
                            \o (IF wantsChart /\ h.installed
                                THEN <<Call("addHelmChart", addonName)>> ELSE <<>>)
                /\ helmCharts' = IF wantsChart /\ ~thrown THEN Append(helmCharts, h.chart)
                                 ELSE helmCharts
                /\ err' = IF thrown THEN error ELSE err
                /\ pc' = walkAfter(thrown)
                /\ idx' = IF pc' = "failed" THEN idx ELSE idx + 1
    /\ UNCHANGED <<props, fault, other, deploymentOrder, output, lastQuery>>

\* this.output = {...}: lines 325-330
AssignOutput ==
    /\ pc = "deploy"
    /\ idx > Len(deploymentOrder)
    /\ output' = [assigned |-> TRUE, helmCharts |-> helmCharts,
                  serviceAccounts |-> serviceAccounts, namespaces |-> namespaces,
                  deploymentOrder |-> deploymentOrder]
    /\ pc' = "done"
    /\ UNCHANGED <<props, fault, other, err, deploymentOrder, idx, helmCharts, serviceAccounts,
                   namespaces, calls, lastQuery>>

\* faulty variant: an addon counts as deployed when a release of it exists
isAddonDeployedByRelease(out, name) ==
    \E k \in 1..Len(out.helmCharts) : out.helmCharts[k].id = <<name, "chart">>

\* isAddonDeployed(name): lines 543-545
isAddonDeployed(out, name) == Includes(out.deploymentOrder, name)

\* getServiceAccountRole(addonName): lines 550-552
getServiceAccountRole(out, addonName) == roleOf(out.serviceAccounts, addonName)

\* the names the queries are asked about: the addons' names, a name no
\* addon has, and a name no addon has that Object.prototype defines
QueryArgs == NameSet \cup {Absent, "constructor"}

\* faulty variant: the query records the name it was asked about in the order
IsAddonDeployedRecording ==
    /\ pc = "done"
    /\ \E name \in QueryArgs :
          /\ lastQuery' = [method |-> "isAddonDeployed", arg |-> name,
                           found |-> isAddonDeployed(output, name), role |-> NoRole]
          /\ output' = [output EXCEPT !.deploymentOrder =
                           IF Includes(@, name) THEN @ ELSE Append(@, name)]
    /\ UNCHANGED <<props, fault, other, pc, err, deploymentOrder, idx, helmCharts,
                   serviceAccounts, namespaces, calls>>

IsAddonDeployed ==
    /\ pc = "done"
    /\ \E name \in QueryArgs :
          lastQuery' = [method |-> "isAddonDeployed", arg |-> name,
                        found |-> isAddonDeployed(output, name), role |-> NoRole]
    /\ UNCHANGED <<props, fault, other, pc, err, deploymentOrder, idx, helmCharts, serviceAccounts,
                   namespaces, calls, output>>

GetServiceAccountRole ==
    /\ pc = "done"
    /\ \E name \in QueryArgs :
          LET role == getServiceAccountRole(output, name)
          IN  lastQuery' = [method |-> "getServiceAccountRole", arg |-> name,
                            found |-> role.present, role |-> role]
    /\ UNCHANGED <<props, fault, other, pc, err, deploymentOrder, idx, helmCharts, serviceAccounts,
                   namespaces, calls, output>>

\* the environments a stack is built for
Environments == {"test", "Test"}

\* new AddonBuilder(scope, id, props) once more, in a separate instance: the
\* same addons and dependency entries, in any environment and on a cluster
\* handle of its own, which may throw at another call or at none.  The
\* constructor starts over with fresh locals (lines 280-292); `calls` becomes
\* the log of the new construction and `other` keeps what the first was given
\* and ended with.
ConstructAgain ==
    /\ pc \in {"done", "failed"}
    /\ other = NoInstance
    /\ other' = [pc |-> pc, err |-> err, deploymentOrder |-> deploymentOrder,
                 calls |-> calls, environment |-> props.environment,
                 fault |-> fault]
    /\ \E env \in Environments : props' = [props EXCEPT !.environment = env]
    /\ fault' \in IF fault = NoFault THEN {NoFault} ELSE Faults \cup {NoFault}
    /\ pc' = "validateProps"
    /\ err' = NoError
    /\ deploymentOrder' = <<>>
    /\ idx' = 1
    /\ helmCharts' = <<>>
    /\ serviceAccounts' = <<>>
    /\ namespaces' = <<>>
    /\ calls' = <<>>
    /\ output' = Unassigned
    /\ lastQuery' = NoQuery

Next ==
    \/ ValidateProps
    \/ ResolveDeploymentOrder
    \/ DeployAddon
    \/ AssignOutput
    \/ IsAddonDeployed
    \/ GetServiceAccountRole
    \/ ConstructAgain

Spec == Init /\ [][Next]_vars

-----------------------------------------------------------------------------
(* Vocabulary of the properties, defined on the input alone *)

AddonNameSet(p) == {p.addons[i].name : i \in 1..Len(p.addons)}

\* "A depends on B" declared inline, as pairs <<A, B>>
InlineEdges(p) ==
    UNION {{<<p.addons[i].name, p.addons[i].dependsOn[j]>> :
                j \in 1..Len(p.addons[i].dependsOn)} : i \in 1..Len(p.addons)}

\* "A depends on B" declared by an external AddonDependency entry
ExternalEdges(p) ==
    UNION {{<<p.dependencies[i].addon, p.dependencies[i].dependsOn[j]>> :
                j \in 1..Len(p.dependencies[i].dependsOn)} :
           i \in 1..Len(p.dependencies)}

\* the merged dependency relation restricted to names of the addon set
Edges(p) ==
    {e \in InlineEdges(p) \cup ExternalEdges(p) :
        e[1] \in AddonNameSet(p) /\ e[2] \in AddonNameSet(p)}

\* pairs <<x, z>> with <<x, y>> in R and <<y, z>> in E
Compose(R, E) ==
    {<<x[1][1], x[2][2]>> : x \in {y \in R \X E : y[1][2] = y[2][1]}}

RECURSIVE Paths(_, _, _)
\* pairs joined by a path of 1..n edges of E, given R, those joined by one
Paths(E, R, n) == IF n <= 1 THEN R ELSE Paths(E, R \cup Compose(R, E), n - 1)

\* "A depends on B, directly or transitively"
Reach(p) == Paths(Edges(p), Edges(p), Cardinality(AddonNameSet(p)))

Cyclic(p) == \E n \in AddonNameSet(p) : <<n, n>> \in Reach(p)

\* number of addons of the set named `name`
Occurrences(seq, name) == Cardinality({i \in 1..Len(seq) : seq[i] = name})

\* the structural violations of one addon
NoName(a) == falsy(a.name)
NoHelm(a) == a.deploymentMethod = "cdk-helm" /\ ~a.helmConfig.present
NoChart(a) == a.helmConfig.present /\ a.helmConfig.chart = ""
BadServiceAccount(a) ==
    a.serviceAccount.present
    /\ (a.serviceAccount.name = "" \/ a.serviceAccount.namespace = "")
Malformed(a) == NoName(a) \/ NoHelm(a) \/ NoChart(a) \/ BadServiceAccount(a)

\* the walk has started: validateProps and resolveDeploymentOrder returned
Resolved ==
    pc \in {"deploy", "done"} \/ (pc = "failed" /\ err.kind \in {"type-error", "cluster"})

\* the constructor has returned or thrown
Terminated == pc \in {"done", "failed"}

-----------------------------------------------------------------------------
(* Deployment order *)

\* C1: once the order is resolved (the input passed validation and no cycle
\* was found), deploymentOrder is a permutation of the names of all addons,
\* enabled and disabled: same length as the addon set, every name exactly once.
C1_OrderIsPermutation ==
    Resolved =>
        /\ Len(deploymentOrder) = Len(props.addons)
        /\ \A i \in 1..Len(props.addons) :
              Occurrences(deploymentOrder, props.addons[i].name) = 1

\* a resolved order of three addons, one of them disabled, that differs from
\* the declaration order and in which one addon is a dependency of two others
C1_Witness ==
    /\ pc = "done"
    /\ Len(deploymentOrder) = 3
    /\ deploymentOrder # addonNamesOf(props.addons)
    /\ \E i \in 1..3 : ~props.addons[i].enabled
    /\ \E x, y, z \in AddonNameSet(props) :
          x # y /\ <<x, z>> \in Edges(props) /\ <<y, z>> \in Edges(props)

\* C2 (as claimed): for every declared edge "A depends on B", inline or
\* external, with A and B in the addon set, B precedes A in deploymentOrder.
C2_EveryDeclaredEdgeOrdered ==
    pc = "done" =>
        \A e \in Edges(props) :
            IndexOf(output.deploymentOrder, e[2]) < IndexOf(output.deploymentOrder, e[1])

\* the dependencies the resolver uses for `name`
EffectiveDependencies(p, name) ==
    Range(MapGet(buildDependencyMap(p.addons, p.dependencies), name))

\* the union of every external list naming `name` and of its inline list
DeclaredDependencies(p, name) ==
    {e[2] : e \in {d \in InlineEdges(p) \cup ExternalEdges(p) : d[1] = name}}

\* C3 (as claimed): the effective dependencies of an addon are the union of
\* the dependsOn lists of every external entry naming it and of its inline
\* dependsOn.
C3_EffectiveDependenciesAreUnion ==
    (pc # "validateProps" /\ err.kind \notin ValidationKinds) =>
        \A n \in AddonNameSet(props) :
            EffectiveDependencies(props, n) = DeclaredDependencies(props, n)

\* C4 (as claimed): for an input that passed validation, construction fails
\* with the circular-dependency error exactly when the merged dependency
\* relation, restricted to the addon set, has a cycle.
C4_CycleErrorIffCyclic ==
    (pc \notin {"validateProps", "resolveDeploymentOrder"}
     /\ err.kind \notin ValidationKinds) =>
        (err.kind = "cycle" <=> Cyclic(props))

\* C5: the addon named by a circular-dependency error lies on a cycle of the
\* dependency relation: it depends on itself through one or more edges.
C5_CycleErrorNamesCycleMember ==
    err.kind = "cycle" => <<err.addon, err.addon>> \in Reach(props)

\* a cycle error raised while visiting a first addon that reaches the cycle
\* without lying on it
C5_Witness ==
    /\ pc = "failed"
    /\ err.kind = "cycle"
    /\ <<props.addons[1].name, err.addon>> \in Reach(props)
    /\ <<props.addons[1].name, props.addons[1].name>> \notin Reach(props)

-----------------------------------------------------------------------------
(* Validation and its effects *)

\* C6: when construction fails with a validation error (duplicate name,
\* structural, unknown dependency) or with the cycle error, the constructor
\* has thrown and nothing was created: no cluster-handle operation was
\* invoked, there is no namespace manifest, no role and no Helm release, and
\* this.output was never assigned.
C6_NoSideEffectOnRejectedInput ==
    err.kind \in ValidationKinds \cup {"cycle"} =>
        /\ pc = "failed"
        /\ calls = <<>>
        /\ namespaces = <<>>
        /\ serviceAccounts = <<>>
        /\ helmCharts = <<>>
        /\ ~output.assigned

\* a structural error on the second addon, behind a well-formed, enabled
\* first addon that asks for a namespace, a role and a release
C6_Witness ==
    /\ pc = "failed"
    /\ err.kind \in StructuralKinds
    /\ Len(props.addons) = 2
    /\ err.addon = props.addons[2].name
    /\ LET first == props.addons[1]
       IN  /\ ~Malformed(first)
           /\ first.enabled
           /\ first.createNamespace /\ first.namespace # ""
           /\ first.serviceAccount.present
           /\ first.deploymentMethod = "cdk-helm"

\* the releases installed for the addon `name`
ChartsOf(charts, name) ==
    {charts[i] : i \in {j \in 1..Len(charts) : charts[j].id = <<name, "chart">>}}

\* enabled cdk-helm addon with a helmConfig, as deployed by the walk
DeploysChart(a) == a.enabled /\ a.deploymentMethod = "cdk-helm" /\ a.helmConfig.present

\* C7 (as claimed): for an enabled cdk-helm addon with a serviceAccount block
\* in an input that passes validation and has no cycle, construction
\* succeeds, getServiceAccountRole(name) returns the role created for it, and
\* the values of its Helm release hold serviceAccount.create = false, the
\* service-account name and the identifier of that role.
C7_ServiceAccountWiredIntoRelease ==
    (Terminated /\ err.kind \notin ValidationKinds \cup {"cycle"}) =>
        \A i \in 1..Len(props.addons) :
            LET a == props.addons[i]
                role == createServiceAccountRole(a, props.environment)
            IN  (DeploysChart(a) /\ a.serviceAccount.present) =>
                    /\ pc = "done"
                    /\ getServiceAccountRole(output, a.name) = role
                    /\ \E c \in ChartsOf(output.helmCharts, a.name) :
                          /\ c.values.serviceAccount
                          /\ ~c.values.create
                          /\ c.values.name = a.serviceAccount.name
                          /\ c.values.roleArn = role

\* C8 (as claimed): for every enabled cdk-helm addon with createNamespace and
\* a namespace, in an input that passes validation and has no cycle,
\* construction succeeds and the addon's release depends on exactly the
\* namespace manifest created for that addon.
C8_ReleaseDependsOnOwnNamespace ==
    (Terminated /\ err.kind \notin ValidationKinds \cup {"cycle"}) =>
        \A i \in 1..Len(props.addons) :
            LET a == props.addons[i]
            IN  (DeploysChart(a) /\ a.createNamespace /\ a.namespace # "") =>
                    /\ pc = "done"
                    /\ \E n \in Range(output.namespaces) : n.id = <<a.name, "namespace">>
                    /\ \E c \in ChartsOf(output.helmCharts, a.name) :
                          c.dependencies = {<<a.name, "namespace">>}

\* the name n is written in the error's list as itself, and nothing else of
\* `names` is written the same way (an absent name is written as the empty
\* string)
WrittenAsItself(names, n) ==
    n # undefined /\ (n = "" => ~Includes(names, undefined))

\* C9: if a name occurs more than once in the addon set, construction fails
\* with the duplicate-name error, which lists every repeated name (an absent
\* name as the empty string), and lists a name that occurs exactly twice
\* exactly once and a name that occurs once not at all.
C9_DuplicateErrorListsEveryDuplicate ==
    LET names == addonNamesOf(props.addons)
    IN  (pc # "validateProps" /\ \E n \in Range(names) : Occurrences(names, n) > 1) =>
            /\ pc = "failed"
            /\ err.kind = "duplicate"
            /\ \A n \in Range(names) :
                  /\ Occurrences(names, n) > 1 => Includes(err.names, join(<<n>>)[1])
                  /\ WrittenAsItself(names, n) =>
                        /\ Occurrences(names, n) = 2 => Occurrences(err.names, n) = 1
                        /\ Occurrences(names, n) = 1 => ~Includes(err.names, n)

\* a duplicate error for a set in which two different names are repeated
C9_Witness ==
    /\ pc = "failed"
    /\ err.kind = "duplicate"
    /\ Len(props.addons) = 4
    /\ \E m, n \in Range(err.names) : m # n
    /\ \A n \in Range(err.names) : Occurrences(addonNamesOf(props.addons), n) = 2

\* the error that names addon `a`, at 1-based position i, for one of its own
\* structural violations
NamesAddon(e, a, i) ==
    IF NoName(a)
    THEN e = MissingNameError(i - 1)
    ELSE /\ e.addon = a.name
         /\ \/ e.kind = "missing-helmconfig" /\ NoHelm(a)
            \/ e.kind = "missing-chart" /\ NoChart(a)
            \/ e.kind = "bad-serviceaccount" /\ BadServiceAccount(a)

\* C10 (as claimed): every addon, enabled or disabled, with a structural
\* violation makes construction fail with an error naming that addon (its
\* index when the name is missing).
C10_EveryMalformedAddonNamed ==
    pc # "validateProps" =>
        \A i \in 1..Len(props.addons) :
            Malformed(props.addons[i]) =>
                pc = "failed" /\ NamesAddon(err, props.addons[i], i)

\* C10 (amended): every addon, enabled or disabled, with a structural
\* violation makes construction fail with a duplicate-name or structural
\* error; when no name of the set is repeated and no earlier addon has a
\* structural violation, the error names that addon (its index when the name
\* is missing).
C10_FirstMalformedAddonNamed ==
    pc # "validateProps" =>
        \A i \in 1..Len(props.addons) :
            Malformed(props.addons[i]) =>
                /\ pc = "failed"
                /\ err.kind \in {"duplicate"} \cup StructuralKinds
                /\ ((/\ \A n \in AddonNameSet(props) :
                            Occurrences(addonNamesOf(props.addons), n) = 1
                     /\ \A j \in 1..(i - 1) : ~Malformed(props.addons[j]))
                    => NamesAddon(err, props.addons[i], i))

\* a disabled second addon with a service account lacking its namespace is
\* named by the error, behind a well-formed first addon
C10_Witness ==
    /\ pc = "failed"
    /\ Len(props.addons) = 2
    /\ ~Malformed(props.addons[1])
    /\ ~props.addons[2].enabled
    /\ props.addons[2].serviceAccount.present
    /\ props.addons[2].serviceAccount.name # ""
    /\ props.addons[2].serviceAccount.namespace = ""
    /\ err = ServiceAccountError(props.addons[2].name)

-----------------------------------------------------------------------------
(* Validation: referential integrity and the order of the checks *)

\* some name occurs more than once among the name values of the addons
RepeatedName(p) ==
    \E n \in AddonNameSet(p) : Occurrences(addonNamesOf(p.addons), n) > 1

\* the names of the external entry d that are absent from the addon set
MissingNames(p, d) ==
    {n \in {d.addon} \cup Range(d.dependsOn) : n \notin AddonNameSet(p)}

\* the first reference of d found absent: its owner, else the first absent
\* name of its dependsOn list
FirstMissing(p, d) ==
    IF d.addon \notin AddonNameSet(p) THEN d.addon
    ELSE d.dependsOn[CHOOSE j \in 1..Len(d.dependsOn) :
                        /\ d.dependsOn[j] \notin AddonNameSet(p)
                        /\ \A k \in 1..(j - 1) : d.dependsOn[k] \in AddonNameSet(p)]

\* the error identifies the owner of an entry and the missing name
Identifies(e, owner, missing) ==
    \/ e.kind = "unknown-owner" /\ e.ref = owner /\ missing = owner
    \/ e.kind = "unknown-dependency" /\ e.addon = owner /\ e.ref = missing

\* C11 (as claimed): for every external entry and every name of it (owner or
\* dependsOn member) absent from the addon set, construction fails with an
\* unknown-dependency error identifying the owner and that missing name.
C11_EveryMissingReferenceIdentified ==
    pc # "validateProps" =>
        \A i \in 1..Len(props.dependencies) :
            \A m \in MissingNames(props, props.dependencies[i]) :
                /\ pc = "failed"
                /\ err.kind \in ReferenceKinds
                /\ Identifies(err, props.dependencies[i].addon, m)

\* C11 (amended): every external entry with a reference absent from the
\* addon set makes construction fail with a validation error; when no name
\* is repeated, no addon has a structural violation and no earlier entry has
\* a missing reference, it is the unknown-dependency error for the entry's
\* first missing reference (the owner when absent, else the owner and the
\* first absent name of its dependsOn list).
C11_FirstMissingReferenceIdentified ==
    pc # "validateProps" =>
        \A i \in 1..Len(props.dependencies) :
            LET d == props.dependencies[i]
            IN  MissingNames(props, d) # {} =>
                    /\ pc = "failed"
                    /\ err.kind \in ValidationKinds
                    /\ ((/\ ~RepeatedName(props)
                         /\ \A j \in 1..Len(props.addons) : ~Malformed(props.addons[j])
                         /\ \A j \in 1..(i - 1) :
                               MissingNames(props, props.dependencies[j]) = {})
                        => /\ err.kind \in ReferenceKinds
                           /\ Identifies(err, d.addon, FirstMissing(props, d)))

\* two entries with existing owners each name an absent addon; the error
\* identifies the owner and the missing name of the first
C11_Witness ==
    /\ pc = "failed"
    /\ Len(props.dependencies) = 2
    /\ \A i \in 1..2 :
          /\ props.dependencies[i].addon \in AddonNameSet(props)
          /\ MissingNames(props, props.dependencies[i]) # {}
    /\ props.dependencies[1].addon # props.dependencies[2].addon
    /\ err = UnknownDependencyError(props.dependencies[1].addon,
                                    props.dependencies[1].dependsOn[1])

\* a name (not a missing one) is carried by more than one addon
DuplicatedName(p) ==
    \E n \in AddonNameSet(p) \ {"", undefined} :
        Occurrences(addonNamesOf(p.addons), n) > 1

AnyMalformed(p) == \E i \in 1..Len(p.addons) : Malformed(p.addons[i])

AnyMissingReference(p) ==
    \E i \in 1..Len(p.dependencies) : MissingNames(p, p.dependencies[i]) # {}

\* C12: the error raised belongs to the earliest violated category in the
\* sequence duplicate names, structural checks, referential integrity; a
\* cycle error is raised only when all three pass; an input with an addon
\* without a name and no duplicated name gets a structural (missing-name)
\* error, never the duplicate error.
C12_EarliestViolatedCategoryReported ==
    pc # "validateProps" =>
        /\ DuplicatedName(props) => pc = "failed" /\ err.kind = "duplicate"
        /\ (~DuplicatedName(props) /\ AnyMalformed(props)) =>
              pc = "failed" /\ err.kind \in StructuralKinds
        /\ (~DuplicatedName(props) /\ ~AnyMalformed(props)
                /\ AnyMissingReference(props)) =>
              pc = "failed" /\ err.kind \in ReferenceKinds
        /\ err.kind = "cycle" =>
              ~DuplicatedName(props) /\ ~AnyMalformed(props)
              /\ ~AnyMissingReference(props)

\* the kind of error of the first check an addon in violation fails, in the
\* order name, helmConfig, chart, service account
FirstViolationKind(a) ==
    IF NoName(a) THEN "missing-name"
    ELSE IF NoHelm(a) THEN "missing-helmconfig"
    ELSE IF NoChart(a) THEN "missing-chart"
    ELSE "bad-serviceaccount"

\* C13 (as claimed): when several addons each have a structural violation
\* (and no name is repeated), the violation of a later addon is reported as
\* well as that of an earlier one.
C13_LaterViolationReportedToo ==
    pc # "validateProps" =>
        \A i, j \in 1..Len(props.addons) :
            (/\ i < j
             /\ ~RepeatedName(props)
             /\ Malformed(props.addons[i])
             /\ Malformed(props.addons[j]))
            => /\ pc = "failed"
               /\ NamesAddon(err, props.addons[j], j)

\* C13 (amended): structural validation stops at the first violation: when
\* several addons each have a structural violation and no name is repeated,
\* construction fails with one structural error, the first violation (in the
\* order name, helmConfig, chart, service account) of the earliest addon in
\* violation; the violation of a later addon is not reported.
C13_OnlyFirstViolationReported ==
    pc # "validateProps" =>
        \A i, j \in 1..Len(props.addons) :
            (/\ i < j
             /\ ~RepeatedName(props)
             /\ Malformed(props.addons[i])
             /\ Malformed(props.addons[j]))
            => /\ pc = "failed"
               /\ err.kind \in StructuralKinds
               /\ ~NamesAddon(err, props.addons[j], j)
               /\ (\A k \in 1..(i - 1) : ~Malformed(props.addons[k]))
                     => /\ NamesAddon(err, props.addons[i], i)
                        /\ err.kind = FirstViolationKind(props.addons[i])

\* a cdk-helm addon without helmConfig is followed by an addon without a
\* name; the error is about the first only
C13_Witness ==
    /\ pc = "failed"
    /\ Len(props.addons) = 2
    /\ ~NoName(props.addons[1])
    /\ NoHelm(props.addons[1])
    /\ NoName(props.addons[2])
    /\ err = MissingHelmConfigError(props.addons[1].name)

-----------------------------------------------------------------------------
(* Inline references outside the addon set, and the tie-break *)

\* the addon with the inline entries naming no addon of the set left out
StripAddon(a, names) ==
    [a EXCEPT !.dependsOn = SelectSeq(@, LAMBDA d : d \in names)]

\* the input with every inline entry naming an absent addon omitted
Strip(p) ==
    [p EXCEPT !.addons = [i \in 1..Len(p.addons) |->
                             StripAddon(p.addons[i], AddonNameSet(p))]]

HasAbsentInline(p) == \E e \in InlineEdges(p) : e[2] \notin AddonNameSet(p)

\* C14: an inline dependsOn entry naming an addon absent from the set never
\* makes construction fail (validation and cycle detection end as they do
\* with the entry omitted), the missing name is not in deploymentOrder, and
\* the order is the one resolved with the entry omitted.
C14_AbsentInlineEntryIgnored ==
    HasAbsentInline(props) =>
        LET q == Strip(props)
            r == resolveDeploymentOrder(q.addons, q.dependencies)
        IN  /\ pc # "validateProps" =>
                  IF validateProps(q) # NoError
                  THEN pc = "failed" /\ err = validateProps(q)
                  ELSE err.kind \notin ValidationKinds
            /\ (pc \notin {"validateProps", "resolveDeploymentOrder"}
                    /\ validateProps(q) = NoError) =>
                  IF r.thrown
                  THEN pc = "failed" /\ err = CycleError(r.at)
                  ELSE /\ Resolved
                       /\ deploymentOrder = r.result
                       /\ \A e \in InlineEdges(props) :
                             e[2] \notin AddonNameSet(props)
                                => ~Includes(deploymentOrder, e[2])

\* construction succeeded for two addons where the first depends on the
\* second and the second names an addon outside the set
C14_Witness ==
    /\ pc = "done"
    /\ Len(props.addons) = 2
    /\ props.addons[1].dependsOn = <<props.addons[2].name>>
    /\ Len(props.addons[2].dependsOn) = 1
    /\ props.addons[2].dependsOn[1] \notin AddonNameSet(props)
    /\ deploymentOrder = <<props.addons[2].name, props.addons[1].name>>

\* neither addon depends on the other, directly or transitively
Unrelated(p, x, y) == <<x, y>> \notin Reach(p) /\ <<y, x>> \notin Reach(p)

-----------------------------------------------------------------------------
(* The deployment walk and the queries *)

\* the cluster-handle and construct-tree calls made for the addon `name`
CallsFor(name) == {i \in 1..Len(calls) : calls[i].addon = name}

\* C16: a disabled addon produces no side effect, whatever its
\* createNamespace, serviceAccount and helmConfig fields: no call is made for
\* it and no namespace manifest, role or Helm release of it exists; once the
\* order is resolved its name is in deploymentOrder.
C16_DisabledAddonHasNoSideEffect ==
    \A i \in 1..Len(props.addons) :
        LET a == props.addons[i]
        IN  (~a.enabled /\ Occurrences(addonNamesOf(props.addons), a.name) = 1) =>
                /\ CallsFor(a.name) = {}
                /\ \A k \in 1..Len(namespaces) : namespaces[k].addonLabel # a.name
                /\ a.name \notin DOMAIN serviceAccounts
                /\ ChartsOf(helmCharts, a.name) = {}
                /\ Resolved => Includes(deploymentOrder, a.name)
                /\ pc = "done" =>
                      /\ ChartsOf(output.helmCharts, a.name) = {}
                      /\ a.name \notin DOMAIN output.serviceAccounts
                      /\ Includes(output.deploymentOrder, a.name)

\* construction succeeded with one release, next to a disabled cdk-helm
\* addon that asks for a namespace, a role and a chart
C16_Witness ==
    /\ pc = "done"
    /\ Len(output.helmCharts) = 1
    /\ \E i \in 1..Len(props.addons) :
          /\ ~props.addons[i].enabled
          /\ props.addons[i].deploymentMethod = "cdk-helm"
          /\ props.addons[i].helmConfig.present
          /\ props.addons[i].createNamespace
          /\ props.addons[i].namespace # ""
          /\ props.addons[i].serviceAccount.present
          /\ Includes(output.deploymentOrder, props.addons[i].name)
          /\ ChartsOf(output.helmCharts, props.addons[i].name) = {}

\* positions of the releases of the addon `name` in a list of releases
ReleasesOf(charts, name) == {k \in 1..Len(charts) : charts[k].id = <<name, "chart">>}

\* C17: after successful construction output.helmCharts holds exactly one
\* release per enabled cdk-helm addon with a helmConfig and no other
\* release; its length is the number of such addons.
C17_OneReleasePerCdkHelmAddon ==
    pc = "done" =>
        /\ Len(output.helmCharts)
              = Cardinality({i \in 1..Len(props.addons) : DeploysChart(props.addons[i])})
        /\ \A i \in 1..Len(props.addons) :
              Cardinality(ReleasesOf(output.helmCharts, props.addons[i].name))
                 = IF DeploysChart(props.addons[i]) THEN 1 ELSE 0
        /\ \A k \in 1..Len(output.helmCharts) :
              \E i \in 1..Len(props.addons) :
                 /\ DeploysChart(props.addons[i])
                 /\ output.helmCharts[k].id = <<props.addons[i].name, "chart">>
                 /\ output.helmCharts[k].chart = props.addons[i].helmConfig.chart

\* construction succeeded with one release for two enabled addons with a
\* helmConfig, one of which uses another deployment method
C17_Witness ==
    /\ pc = "done"
    /\ Len(output.helmCharts) = 1
    /\ \E i, j \in 1..Len(props.addons) :
          /\ DeploysChart(props.addons[i])
          /\ props.addons[j].enabled
          /\ props.addons[j].helmConfig.present
          /\ props.addons[j].deploymentMethod # "cdk-helm"

\* C18: isAddonDeployed(name) returns true exactly when name is in the
\* resolved deploymentOrder: true for every addon of the input set, disabled
\* ones included, and false for every other name.
C18_IsAddonDeployedIffInOrder ==
    lastQuery.method = "isAddonDeployed" =>
        /\ lastQuery.found <=> Includes(deploymentOrder, lastQuery.arg)
        /\ lastQuery.arg \in AddonNameSet(props) => lastQuery.found
        /\ lastQuery.arg \notin AddonNameSet(props) => ~lastQuery.found

\* the query answered true for a disabled addon that has no release
C18_Witness ==
    /\ lastQuery.method = "isAddonDeployed"
    /\ lastQuery.found
    /\ Len(output.helmCharts) > 0
    /\ ReleasesOf(output.helmCharts, lastQuery.arg) = {}
    /\ \E i \in 1..Len(props.addons) :
          props.addons[i].name = lastQuery.arg /\ ~props.addons[i].enabled

\* the addon named `name` is enabled and has a serviceAccount block
HasRole(p, name) ==
    \E i \in 1..Len(p.addons) :
        /\ p.addons[i].name = name
        /\ p.addons[i].enabled
        /\ p.addons[i].serviceAccount.present

\* C19: after successful construction getServiceAccountRole(name) returns a
\* role exactly when name is an enabled addon with a serviceAccount block,
\* and then the role created for that addon; it returns nothing for disabled
\* addons, addons without a serviceAccount and unknown names.
C19_RoleReturnedIffCreated ==
    lastQuery.method = "getServiceAccountRole" =>
        /\ lastQuery.found <=> HasRole(props, lastQuery.arg)
        /\ lastQuery.found =>
              lastQuery.role = createServiceAccountRole(
                                   findAddon(props.addons, lastQuery.arg),
                                   props.environment)
        /\ ~lastQuery.found => lastQuery.role = NoRole

\* the addon named `name` (names are unique once validation has passed)
AddonNamed(p, name) == findAddon(p.addons, name)

\* C20: side effects are issued one addon at a time in resolved order: a
\* call for the addon at position i of deploymentOrder precedes every call
\* for the addon at a position j > i; hence for every declared edge "A
\* depends on B" with both enabled, B's Helm release is installed before any
\* side effect of A; and the releases are listed in deploymentOrder's order.
C20_SideEffectsFollowDeclaredEdges ==
    Resolved =>
        /\ \A k, l \in 1..Len(calls) :
              k < l => IndexOf(deploymentOrder, calls[k].addon)
                          <= IndexOf(deploymentOrder, calls[l].addon)
        /\ \A e \in Edges(props) :
              (/\ e[1] # e[2]
               /\ AddonNamed(props, e[1]).enabled
               /\ DeploysChart(AddonNamed(props, e[2])))
              => \A k \in CallsFor(e[1]) :
                    \E l \in 1..(k - 1) : calls[l] = Call("addHelmChart", e[2])
        /\ \A k, l \in 1..Len(helmCharts) :
              k < l => IndexOf(deploymentOrder, helmCharts[k].id[1])
                          < IndexOf(deploymentOrder, helmCharts[l].id[1])

-----------------------------------------------------------------------------
(* Steps of the walk: namespaces, deployment methods, failures *)

\* enabled addon with createNamespace and a namespace set
WantsNamespace(a) == a.enabled /\ a.createNamespace /\ a.namespace # ""

\* position of a step within the deployment of one addon
StepRank(op) == CASE op = "addManifest" -> 1 [] op = "createRole" -> 2 [] OTHER -> 3

\* positions of the manifests of the addon `name` in a list of manifests
ManifestsOf(manifests, name) ==
    {k \in 1..Len(manifests) : manifests[k].id = <<name, "namespace">>}

\* C21: for an input that passes validation and has no cycle, a namespace
\* manifest is submitted for an addon exactly when the addon is enabled and
\* has createNamespace true and a namespace set; output.namespaces holds
\* exactly one manifest per such addon; within one addon the steps run in
\* the order namespace, role, Helm release.
C21_NamespaceIffRequested ==
    (Terminated /\ err.kind \notin ValidationKinds \cup {"cycle"}) =>
        /\ \A i \in 1..Len(props.addons) :
              LET a == props.addons[i]
              IN  /\ (\E k \in CallsFor(a.name) : calls[k].op = "addManifest")
                        <=> WantsNamespace(a)
                  /\ pc = "done"
                  /\ Cardinality(ManifestsOf(output.namespaces, a.name))
                        = IF WantsNamespace(a) THEN 1 ELSE 0
        /\ \A k, l \in 1..Len(calls) :
              (k < l /\ calls[k].addon = calls[l].addon)
                 => StepRank(calls[k].op) < StepRank(calls[l].op)

\* the walk has dealt with the addon `name`
Walked(name) ==
    /\ Resolved
    /\ pc = "done" \/ idx > IndexOf(deploymentOrder, name)

\* the operations invoked for the addon `name`
OpsFor(name) == {calls[k].op : k \in CallsFor(name)}

\* C22 (as claimed): a well-formed enabled addon whose deployment method is
\* helm-cli, kustomize or kubectl is accepted by validation and no
\* cluster-handle operation is invoked for it, also when it sets
\* createNamespace with a namespace or a serviceAccount.
C22_OtherMethodsAreNoOps ==
    \A i \in 1..Len(props.addons) :
        LET a == props.addons[i]
        IN  (a.enabled /\ a.deploymentMethod # "cdk-helm" /\ ~Malformed(a)) =>
                /\ ~NamesAddon(err, a, i)
                /\ OpsFor(a.name) = {}

\* C22 (amended): a well-formed enabled addon whose deployment method is
\* helm-cli, kustomize or kubectl is accepted by validation and no Helm
\* release is installed for it, with or without a helmConfig; its namespace
\* manifest is still submitted when it sets createNamespace with a namespace
\* and its role is still created when it has a serviceAccount.
C22_OtherMethodsInstallNoRelease ==
    \A i \in 1..Len(props.addons) :
        LET a == props.addons[i]
        IN  (a.enabled /\ a.deploymentMethod # "cdk-helm" /\ ~Malformed(a)) =>
                /\ ~NamesAddon(err, a, i)
                /\ "addHelmChart" \notin OpsFor(a.name)
                /\ ChartsOf(helmCharts, a.name) = {}
                /\ (Walked(a.name) /\ ~RepeatedName(props)) =>
                      /\ "addManifest" \in OpsFor(a.name) <=> WantsNamespace(a)
                      /\ "createRole" \in OpsFor(a.name) <=> a.serviceAccount.present

\* construction succeeded for a kustomize addon with a helmConfig, a
\* namespace to create and a service account: a manifest and a role, no
\* release
C22_Witness ==
    /\ pc = "done"
    /\ props.addons[1].enabled
    /\ props.addons[1].deploymentMethod = "kustomize"
    /\ props.addons[1].helmConfig.present
    /\ OpsFor(props.addons[1].name) = {"addManifest", "createRole"}
    /\ ChartsOf(output.helmCharts, props.addons[1].name) = {}

\* the operations the walk invokes for a deployed addon
ExpectedOps(a) ==
    (IF WantsNamespace(a) THEN {"addManifest"} ELSE {})
    \cup (IF a.enabled /\ a.serviceAccount.present THEN {"createRole"} ELSE {})
    \cup (IF DeploysChart(a) THEN {"addHelmChart"} ELSE {})

\* C23: when a cluster-handle call fails while the addon at position i of
\* deploymentOrder is deployed, the failure reaches the caller as it is, no
\* call is made for an addon at a later position (the failing call is the
\* last one), and what was applied for addons at earlier positions and in
\* earlier steps of the same addon stays applied: the log holds creating
\* calls only, all of those due for the earlier addons.
C23_FailureAbortsWithoutRollback ==
    err.kind = "cluster" =>
        LET i == IndexOf(deploymentOrder, fault.addon)
        IN  /\ pc = "failed"
            /\ err = ClusterError(fault.op, fault.addon)
            /\ i > 0 /\ idx = i
            /\ calls[Len(calls)] = fault
            /\ \A k \in 1..Len(calls) :
                  /\ IndexOf(deploymentOrder, calls[k].addon) <= i
                  /\ calls[k].op \in {"addManifest", "createRole", "addHelmChart"}
            /\ \A j \in 1..(i - 1) :
                  LET a == AddonNamed(props, deploymentOrder[j])
                  IN  /\ OpsFor(a.name) = ExpectedOps(a)
                      /\ WantsNamespace(a) => ManifestsOf(namespaces, a.name) # {}
                      /\ DeploysChart(a) => ReleasesOf(helmCharts, a.name) # {}
                      /\ (a.enabled /\ a.serviceAccount.present)
                            => a.name \in DOMAIN serviceAccounts
            /\ (fault.op # "addManifest"
                    /\ WantsNamespace(AddonNamed(props, fault.addon)))
                  => /\ "addManifest" \in OpsFor(fault.addon)
                     /\ ManifestsOf(namespaces, fault.addon) # {}

\* the creation of the role of the third addon of the order failed after its
\* namespace manifest and the calls of the two addons before it
C23_Witness ==
    /\ pc = "failed"
    /\ err.kind = "cluster"
    /\ fault.op = "createRole"
    /\ IndexOf(deploymentOrder, fault.addon) = 3
    /\ Len(helmCharts) > 0
    /\ Len(namespaces) > 1
    /\ calls[Len(calls) - 1] = Call("addManifest", fault.addon)

\* C24: in any construction, successful or failing, each cluster-handle
\* operation (namespace manifest, role, Helm chart installation) is invoked
\* at most once per addon: no call is repeated after a failure and no addon
\* is deployed twice, also when a dependency is reachable through several
\* paths or declared several times.
C24_EachOperationAtMostOncePerAddon ==
    /\ \A k, l \in 1..Len(calls) : k # l => calls[k] # calls[l]
    /\ \A n \in AddonNameSet(props) :
          /\ Cardinality(ReleasesOf(helmCharts, n)) <= 1
          /\ Cardinality(ManifestsOf(namespaces, n)) <= 1

\* every addon was deployed once although the first addon names the third
\* twice as its dependency and reaches it through the second as well
C24_Witness ==
    /\ pc = "done"
    /\ Len(props.addons) = 3
    /\ MapGet(buildDependencyMap(props.addons, props.dependencies), props.addons[1].name)
          = <<props.addons[3].name, props.addons[3].name>>
    /\ props.addons[2].dependsOn = <<props.addons[3].name>>
    /\ Len(calls) = 3

-----------------------------------------------------------------------------
(* Determinism, queries, and the shape of the order *)

\* s is an initial segment of t
IsPrefix(s, t) == Len(s) <= Len(t) /\ \A i \in 1..Len(s) : s[i] = t[i]

\* no call of the cluster handle threw in this construction or in the
\* earlier one
NoClusterError == err.kind # "cluster" /\ other.err.kind # "cluster"

C25_WitnessOtherFault ==
    /\ other.pc = "done"
    /\ other.fault # NoFault
    /\ pc = "failed"
    /\ err.kind = "cluster"
    /\ calls # <<>>
    /\ Len(calls) < Len(other.calls)

\* C26: once construction has completed, a call of isAddonDeployed or
\* getServiceAccountRole, whatever its argument and whatever was called
\* before, leaves helmCharts, serviceAccounts, namespaces and deploymentOrder
\* of the output unchanged and invokes no cluster-handle operation.
C26_QueriesChangeNothing ==
    [][(pc = "done" /\ pc' = "done") =>
          /\ output' = output
          /\ calls' = calls
          /\ UNCHANGED <<helmCharts, serviceAccounts, namespaces, deploymentOrder>>]_vars

\* a query was answered on an output that holds a release, a role, a
\* namespace manifest and two names
C26_Witness ==
    /\ pc = "done"
    /\ lastQuery.method # "none"
    /\ lastQuery.arg \notin AddonNameSet(props)
    /\ Len(output.helmCharts) > 0
    /\ Len(output.namespaces) > 0
    /\ DOMAIN output.serviceAccounts # {}
    /\ Len(output.deploymentOrder) = 2
    /\ calls # <<>>

\* no addon has a dependency: no external entry and no inline dependsOn
NoDependencies(p) ==
    /\ p.dependencies = <<>>
    /\ \A i \in 1..Len(p.addons) : p.addons[i].dependsOn = <<>>

\* C27: when no addon has any dependency, deploymentOrder is exactly the
\* declaration order of the addon set, enabled and disabled addons in their
\* original positions.
C27_NoDependenciesKeepsDeclarationOrder ==
    (Resolved /\ NoDependencies(props)) =>
        /\ Len(deploymentOrder) = Len(props.addons)
        /\ \A i \in 1..Len(props.addons) : deploymentOrder[i] = props.addons[i].name

\* construction succeeded for a disabled addon followed by an enabled one,
\* without dependencies, in that order
C27_Witness ==
    /\ pc = "done"
    /\ NoDependencies(props)
    /\ Len(props.addons) = 2
    /\ ~props.addons[1].enabled
    /\ props.addons[2].enabled
    /\ output.deploymentOrder = <<props.addons[1].name, props.addons[2].name>>
    /\ Len(output.helmCharts) = 1

\* C28: for an input that passes validation and has no cycle, with no call
\* of the cluster handle failing, an enabled addon that depends on a
\* disabled addon is deployed as configured: its namespace manifest, its
\* role and its release are created although the dependency produced no
\* release.
C28_EnabledAddonDeployedDespiteDisabledDependency ==
    (Terminated /\ fault = NoFault /\ err.kind \notin ValidationKinds \cup {"cycle"}) =>
        \A e \in Edges(props) :
            LET a == AddonNamed(props, e[1])
                b == AddonNamed(props, e[2])
            IN  (a.enabled /\ ~b.enabled) =>
                    /\ OpsFor(b.name) = {}
                    /\ OpsFor(a.name) = ExpectedOps(a)
                    /\ DeploysChart(a) => ReleasesOf(helmCharts, a.name) # {}

-----------------------------------------------------------------------------
(* Role names *)

\* indices of the addons whose role the walk has created
WithRole == {i \in 1..Len(props.addons) : props.addons[i].name \in DOMAIN serviceAccounts}

\* system:serviceaccount:<namespace>:<name> of the addon's own block
OwnSubject(a) ==
    <<"system:serviceaccount", a.serviceAccount.namespace, a.serviceAccount.name>>

\* C29 (as claimed): the role created for an addon is named
\* admiral-<environment>-sa-<serviceAccountName>, so two enabled addons whose
\* serviceAccount blocks share the name get the same role name whatever
\* their addon names and namespaces; each role's trust subject is that of
\* its own addon.
C29_RoleNameIsEnvironmentAndAccountName ==
    \A i, j \in WithRole :
        LET a == props.addons[i]
            b == props.addons[j]
            ra == serviceAccounts[a.name]
            rb == serviceAccounts[b.name]
        IN  /\ ra.roleName = <<"admiral", props.environment, <<"sa", a.serviceAccount.name>>>>
            /\ a.serviceAccount.name = b.serviceAccount.name => ra.roleName = rb.roleName
            /\ ra.subject = OwnSubject(a)

\* C29 (amended): the role name is admiral-<environment>-sa-<name> in lower
\* case, a function of the environment and the service-account name only:
\* two enabled addons whose serviceAccount names are equal, or differ in
\* case only, get the same role name whatever their addon names and
\* namespaces; each role's trust subject is that of its own addon, as
\* written.
C29_RoleNameIsLowerCased ==
    \A i, j \in WithRole :
        LET a == props.addons[i]
            b == props.addons[j]
            ra == serviceAccounts[a.name]
            rb == serviceAccounts[b.name]
        IN  /\ ra.roleName = <<"admiral", toLowerCase(props.environment),
                               <<"sa", toLowerCase(a.serviceAccount.name)>>>>
            /\ toLowerCase(a.serviceAccount.name) = toLowerCase(b.serviceAccount.name)
                  => ra.roleName = rb.roleName
            /\ ra.subject = OwnSubject(a)

\* construction succeeded with two roles of one name for addons whose
\* service accounts share the name and live in different namespaces
C29_Witness ==
    /\ pc = "done"
    /\ Len(props.addons) = 2
    /\ props.addons[1].serviceAccount.name = props.addons[2].serviceAccount.name
    /\ props.addons[1].serviceAccount.namespace # props.addons[2].serviceAccount.namespace
    /\ getServiceAccountRole(output, props.addons[1].name).present
    /\ getServiceAccountRole(output, props.addons[1].name).roleName
          = getServiceAccountRole(output, props.addons[2].name).roleName
    /\ getServiceAccountRole(output, props.addons[1].name).subject
          # getServiceAccountRole(output, props.addons[2].name).subject

-----------------------------------------------------------------------------
(* Termination of the resolution *)

\* the edges the resolver follows: effective dependencies inside the set
EffectiveEdges(p) ==
    {e \in AddonNameSet(p) \X AddonNameSet(p) : e[2] \in EffectiveDependencies(p, e[1])}

EffectivelyCyclic(p) ==
    \E n \in AddonNameSet(p) :
        <<n, n>> \in Paths(EffectiveEdges(p), EffectiveEdges(p), Cardinality(AddonNameSet(p)))

NoRepeat(seq) == \A k, l \in 1..Len(seq) : k # l => seq[k] # seq[l]

\* resolveDeploymentOrder has just returned or thrown: the input passed
\* validation and the walk has not taken a step
JustResolved ==
    /\ pc \in {"deploy", "failed"}
    /\ err.kind \notin ValidationKinds
    /\ idx = 1
    /\ calls = <<>>

\* C30: for every input that passed validation the resolution ends: it
\* returns an order of all names when the dependencies it follows hold no
\* cycle and raises the cycle error when they do, having started a
\* top-level visit at most once per addon name and finished each name at
\* most once, also with repeated names in a dependency list.
C30_ResolutionTerminates ==
    JustResolved =>
        LET r == resolveDeploymentOrder(props.addons, props.dependencies)
        IN  /\ NoRepeat(r.roots) /\ Range(r.roots) \subseteq AddonNameSet(props)
            /\ NoRepeat(r.finished) /\ Range(r.finished) \subseteq AddonNameSet(props)
            /\ r.result = r.finished
            /\ r.thrown <=> EffectivelyCyclic(props)
            /\ ~r.thrown => Range(r.result) = AddonNameSet(props)
            /\ IF r.thrown THEN pc = "failed" /\ err = CycleError(r.at)
               ELSE pc = "deploy" /\ deploymentOrder = r.result

\* the cycle error was raised for an addon whose dependency list names the
\* same addon twice, after one top-level visit and no finished name
C30_Witness ==
    /\ pc = "failed"
    /\ err.kind = "cycle"
    /\ \E n \in AddonNameSet(props) :
          LET deps == MapGet(buildDependencyMap(props.addons, props.dependencies), n)
          IN  Len(deps) = 2 /\ deps[1] = deps[2]
    /\ Len(resolveDeploymentOrder(props.addons, props.dependencies).roots) = 1
    /\ resolveDeploymentOrder(props.addons, props.dependencies).finished = <<>>

====
